---- MODULE Spec2Model ----
(***************************************************************************)
(* RideWise dashboard (final_project.py): the two cached tables, the four  *)
(* sidebar selections and one full run of the script per selection change. *)
(*                                                                         *)
(* A table is [columns, rows]: columns is the sequence of column           *)
(* descriptors [name, dtype] in declared order, a row is the sequence of   *)
(* its cells in the same order.  A column name is a sequence of text       *)
(* pieces (<<"ridership", "_total">> is "ridership_total"), so that        *)
(* lower-casing, stripping and substring tests are computed.               *)
(* Dates are day numbers, months are runs of DaysPerMonth days, a time is  *)
(* a minute of the day, a mean is the exact fraction [n, d].               *)
(***************************************************************************)
EXTENDS Integers, Sequences, FiniteSets, TLC

VARIABLES daily_df, hourly_df, role, day_type, line, date_range, out

vars == <<daily_df, hourly_df, role, day_type, line, date_range, out>>

(* ------------------------------ bounds --------------------------------- *)
MaxDailyRows == 2
MaxHourlyRows == 2
MaxDay == 2

\* the calendar, scaled down: every month has DaysPerMonth days
DaysPerMonth == 2

(* --------------------------- missing values ---------------------------- *)
\* pandas NaT / NaN: what errors='coerce' leaves for an unparseable cell.
NaT == -1
NaN == -1
\* a raw CSV cell whose text is not a date / time
BadText == -2

(* ------------------------------ strings -------------------------------- *)
\* str.lower() on the text pieces and labels the model uses
StrLower(s) ==
    CASE s = "Ridership" -> "ridership"
      [] s = "Passenger" -> "passenger"
      [] s = "Date"      -> "date"
      [] s = "Time"      -> "time"
      [] s = "Weekday"   -> "weekday"
      [] s = "KL"        -> "kl"
      [] OTHER           -> s

\* Python's string order on the labels the model uses (capitals sort first)
StrOrder == <<"KL", "Weekday", "kl", "pk", "weekday", "weekend">>
StrRank(s) == CHOOSE i \in DOMAIN StrOrder : StrOrder[i] = s

NameLower(name) == [i \in DOMAIN name |-> StrLower(name[i])]

RECURSIVE LStrip(_)
LStrip(name) ==
    IF name # <<>> /\ Head(name) = " " THEN LStrip(Tail(name)) ELSE name

RECURSIVE RStrip(_)
RStrip(name) ==
    IF name # <<>> /\ name[Len(name)] = " "
    THEN RStrip(SubSeq(name, 1, Len(name) - 1))
    ELSE name

\* df.columns.str.strip().str.lower()
NormalizeName(name) == NameLower(RStrip(LStrip(name)))

\* Python's  sub in name  for a one-piece sub
Contains(name, sub) == \E i \in DOMAIN name : name[i] = sub

(* ------------------------------ tables --------------------------------- *)
Col(name, dtype) == [name |-> name, dtype |-> dtype]

ColumnNames(df) == {df.columns[i].name : i \in DOMAIN df.columns}

HasColumn(df, name) == name \in ColumnNames(df)

ColIndex(df, name) == CHOOSE i \in DOMAIN df.columns : df.columns[i].name = name

Cell(df, r, name) == r[ColIndex(df, name)]

IsEmpty(df) == df.rows = <<>>

\* the rows of df that a boolean mask (one entry per row) keeps, in order
RECURSIVE MaskedRows(_, _)
MaskedRows(rows, mask) ==
    IF rows = <<>> THEN <<>>
    ELSE (IF Head(mask) THEN <<Head(rows)>> ELSE <<>>)
         \o MaskedRows(Tail(rows), Tail(mask))

\* df[mask]: a new table holding the rows the mask keeps
FilterRows(df, mask) ==
    [columns |-> df.columns, rows |-> MaskedRows(df.rows, mask)]

\* df[name] = values (one value per row):
\* replaces the column in place when it exists, appends it otherwise
SetColumn(df, name, dtype, values) ==
    IF HasColumn(df, name)
    THEN LET i == ColIndex(df, name) IN
         [columns |-> [df.columns EXCEPT ![i] = Col(name, dtype)],
          rows    |-> [k \in DOMAIN df.rows |->
                          [df.rows[k] EXCEPT ![i] = values[k]]]]
    ELSE [columns |-> Append(df.columns, Col(name, dtype)),
          rows    |-> [k \in DOMAIN df.rows |-> Append(df.rows[k], values[k])]]

(* ------------------------------ numbers -------------------------------- *)
RECURSIVE SetToSortedSeq(_)
SetToSortedSeq(S) ==
    IF S = {} THEN <<>>
    ELSE LET m == CHOOSE x \in S : \A y \in S : x <= y
         IN  <<m>> \o SetToSortedSeq(S \ {m})

RECURSIVE SumSeq(_)
SumSeq(s) == IF s = <<>> THEN 0 ELSE Head(s) + SumSeq(Tail(s))

\* exact fractions [n, d], d > 0
Frac(n, d) == [n |-> n, d |-> d]
FracLeq(a, b) == a.n * b.d <= b.n * a.d
FracLt(a, b)  == a.n * b.d <  b.n * a.d
FracEq(a, b)  == a.n * b.d =  b.n * a.d

\* the per-hour means sorted by value (Series.quantile sorts its values)
RECURSIVE InsertFrac(_, _)
InsertFrac(s, x) ==
    IF s = <<>> THEN <<x>>
    ELSE IF FracLeq(x, Head(s)) THEN <<x>> \o s
    ELSE <<Head(s)>> \o InsertFrac(Tail(s), x)

RECURSIVE SortFracs(_)
SortFracs(s) ==
    IF s = <<>> THEN <<>> ELSE InsertFrac(SortFracs(Tail(s)), Head(s))

\* Series.quantile(q) with q = q10/10, linear interpolation:
\* position q*(n-1) in the sorted values, between its floor and its ceiling
Quantile(values, q10) ==
    LET s    == SortFracs(values)
        pos  == q10 * (Len(s) - 1)
        lo   == (pos \div 10) + 1
        k    == pos % 10
        hi   == IF k = 0 THEN lo ELSE lo + 1
        a    == s[lo]
        b    == s[hi]
    IN  Frac(10 * a.n * b.d + k * (b.n * a.d - a.n * b.d), 10 * a.d * b.d)

\* Series.between(lo, hi): inclusive on both sides, False for a missing value
Between(x, lo, hi) == x # NaN /\ lo <= x /\ x <= hi

\* the last position holding the maximum
IdxMax_Last(values) ==
    CHOOSE i \in DOMAIN values :
        /\ \A j \in DOMAIN values : values[j] <= values[i]
        /\ \A j \in DOMAIN values : j > i => values[j] < values[i]

\* Series.idxmax(): the first position holding the maximum
IdxMax(values) ==
    CHOOSE i \in DOMAIN values :
        /\ \A j \in DOMAIN values : values[j] <= values[i]
        /\ \A j \in DOMAIN values : j < i => values[j] < values[i]

IdxMaxFrac(values) ==
    CHOOSE i \in DOMAIN values :
        /\ \A j \in DOMAIN values : FracLeq(values[j], values[i])
        /\ \A j \in DOMAIN values : j < i => FracLt(values[j], values[i])

(* ------------------------- column auto-detection ----------------------- *)
\* df.select_dtypes(include=["number"]).columns.tolist()
NumericCols(df) ==
    LET cs == SelectSeq(df.columns, LAMBDA c : c.dtype = "number")
    IN  [i \in DOMAIN cs |-> cs[i].name]

IsRidershipName(c) ==
    Contains(NameLower(c), "ridership") \/ Contains(NameLower(c), "passenger")

\* a detection that ranks "ridership" above "passenger"
DetectRidershipCol_Precedence(numeric_cols) ==
    LET r == SelectSeq(numeric_cols, LAMBDA c : Contains(NameLower(c), "ridership"))
        q == SelectSeq(numeric_cols, LAMBDA c : Contains(NameLower(c), "passenger"))
    IN  IF r # <<>> THEN r[1] ELSE IF q # <<>> THEN q[1] ELSE numeric_cols[1]

\* ridership_col = [c for c in numeric_cols if ...]; [0] of it, else numeric_cols[0]
DetectRidershipCol(numeric_cols) ==
    LET matches == SelectSeq(numeric_cols, IsRidershipName)
    IN  IF matches # <<>> THEN matches[1] ELSE numeric_cols[1]

(* ------------------------------ grouping ------------------------------- *)
\* the group keys of df.groupby(key): the values present, missing ones dropped,
\* in ascending order
GroupKeys(df, key) ==
    SetToSortedSeq({Cell(df, df.rows[k], key) : k \in DOMAIN df.rows} \ {NaN})

GroupValues(df, key, g, col) ==
    LET rs == SelectSeq(df.rows, LAMBDA r : Cell(df, r, key) = g)
    IN  [k \in DOMAIN rs |-> Cell(df, rs[k], col)]

\* df.groupby(key)[col].sum().reset_index()
GroupSum(df, key, col) ==
    LET ks == GroupKeys(df, key)
    IN  [i \in DOMAIN ks |->
            [key |-> ks[i], value |-> SumSeq(GroupValues(df, key, ks[i], col))]]

\* df.groupby(key)[col].mean().reset_index()
GroupMean(df, key, col) ==
    LET ks == GroupKeys(df, key)
    IN  [i \in DOMAIN ks |->
            LET vs == GroupValues(df, key, ks[i], col)
            IN  [key |-> ks[i], value |-> Frac(SumSeq(vs), Len(vs))]]

ValuesOf(summary) == [i \in DOMAIN summary |-> summary[i].value]

(* ------------------------- monthly trend section ----------------------- *)
DATE      == <<"date">>
LINE      == <<"line">>
MONTH     == <<"month">>
TIME      == <<"time">>
HOUR      == <<"hour">>
DAY_TYPE  == <<"day_type">>
LINE_TAG  == <<"line_tag">>
RIDERSHIP == <<"ridership">>

NoName == <<>>

\* the date itself, not truncated to its month
MonthStart_NoTruncate(d) == d

\* dt.to_period("M").dt.to_timestamp(): the first day of the date's month
MonthStart(d) == (d \div DaysPerMonth) * DaysPerMonth

\* a mask that tests the start of the range only
DateMask_StartOnly(df, range, r) ==
    Cell(df, r, DATE) # NaT /\ range[1] <= Cell(df, r, DATE)

\* line 59: daily_df["date"].between(start, end)
DateMask(df, range, r) == Between(Cell(df, r, DATE), range[1], range[2])

\* line 86: daily_df["line"].astype(str).str.lower() == line.lower()
LineMask(df, sel_line, r) == StrLower(Cell(df, r, LINE)) = StrLower(sel_line)

\* lines 83-91: the rows of daily_filtered inside the detection branch
DailyFilter(df, sel_line, range) ==
    IF HasColumn(df, LINE)
    THEN FilterRows(df, [k \in DOMAIN df.rows |->
                            /\ DateMask(df, range, df.rows[k])
                            /\ LineMask(df, sel_line, df.rows[k])])
    ELSE FilterRows(df, [k \in DOMAIN df.rows |-> DateMask(df, range, df.rows[k])])

\* line 95: daily_filtered["month"] = ...  (daily_filtered is a copy: the
\* boolean-mask selection of lines 84-91 allocates a new table)
AssignMonth(filtered) ==
    SetColumn(filtered, MONTH, "datetime",
              [k \in DOMAIN filtered.rows |->
                  MonthStart(Cell(filtered, filtered.rows[k], DATE))])

NoPeak == [key |-> NaT, value |-> 0]

\* lines 74-122
MonthlySection(df, sel_line, range) ==
    LET numeric_cols == NumericCols(df) IN
    IF Len(numeric_cols) = 0
    THEN [status          |-> "no_numeric_column",
          ridership_col   |-> NoName,
          daily_filtered  |-> FilterRows(df, [k \in DOMAIN df.rows |->
                                             DateMask(df, range, df.rows[k])]),
          monthly_summary |-> <<>>,
          avg             |-> Frac(0, 1),
          peak            |-> NoPeak]
    ELSE
      LET ridership_col  == DetectRidershipCol(numeric_cols)
          daily_filtered == DailyFilter(df, sel_line, range)
      IN
      IF ~IsEmpty(daily_filtered)
      THEN LET with_month      == AssignMonth(daily_filtered)
               monthly_summary == GroupSum(with_month, MONTH, ridership_col)
               totals          == ValuesOf(monthly_summary)
           IN  [status          |-> "ok",
                ridership_col   |-> ridership_col,
                daily_filtered  |-> with_month,
                monthly_summary |-> monthly_summary,
                avg             |-> Frac(SumSeq(totals), Len(totals)),
                peak            |-> monthly_summary[IdxMax(totals)]]
      ELSE [status          |-> "no_monthly_data",
            ridership_col   |-> ridership_col,
            daily_filtered  |-> daily_filtered,
            monthly_summary |-> <<>>,
            avg             |-> Frac(0, 1),
            peak            |-> NoPeak]

(* ------------------------- hourly pattern section ---------------------- *)
\* lines 127-130
CategoryFilter(df, sel_day, sel_line) ==
    FilterRows(df, [k \in DOMAIN df.rows |->
        /\ StrLower(Cell(df, df.rows[k], DAY_TYPE)) = StrLower(sel_day)
        /\ StrLower(Cell(df, df.rows[k], LINE_TAG)) = StrLower(sel_line)])

\* .dt.hour of a parsed time; NaN for NaT
HourOfTime(t) == IF t = NaT THEN NaN ELSE t \div 60

\* line 135: hourly_filtered['hour'] = to_datetime(time, errors='coerce').dt.hour
AssignHourFromTime(hf) ==
    SetColumn(hf, HOUR, "number",
              [k \in DOMAIN hf.rows |-> HourOfTime(Cell(hf, hf.rows[k], TIME))])

\* line 137: .astype(int) raises on a missing value
HourCastRaises(hf) ==
    \E k \in DOMAIN hf.rows : Cell(hf, hf.rows[k], HOUR) = NaN

\* line 137 when the cast succeeds
AssignHourFromHour(hf) ==
    SetColumn(hf, HOUR, "number",
              [k \in DOMAIN hf.rows |-> Cell(hf, hf.rows[k], HOUR)])

\* lines 134-139
PrepareHour(hf) ==
    IF HasColumn(hf, TIME) THEN AssignHourFromTime(hf)
    ELSE IF HasColumn(hf, HOUR) THEN AssignHourFromHour(hf)
    ELSE hf

HourlyResult(status, hf, col, hourly_avg, peak_hour) ==
    [status          |-> status,
     hourly_filtered |-> hf,
     ridership_col   |-> col,
     hourly_avg      |-> hourly_avg,
     peak_hour       |-> peak_hour]

\* lines 127-183.  A status that starts with "raise" is an exception that
\* nothing catches: the script run ends there.
HourlySection(df, sel_day, sel_line) ==
    LET filtered == CategoryFilter(df, sel_day, sel_line) IN
    IF IsEmpty(filtered)
    THEN HourlyResult("no_hourly_data", filtered, NoName, <<>>, NaN)
    ELSE IF ~HasColumn(filtered, TIME) /\ HasColumn(filtered, HOUR)
            /\ HourCastRaises(filtered)
    THEN HourlyResult("raise ValueError line 137", filtered, NoName, <<>>, NaN)
    ELSE
      LET hf           == PrepareHour(filtered)
          numeric_cols == NumericCols(hf)
      IN
      IF Len(numeric_cols) = 0
      THEN HourlyResult("raise IndexError line 144", hf, NoName, <<>>, NaN)
      ELSE
        LET ridership_col == DetectRidershipCol(numeric_cols) IN
        IF ~HasColumn(hf, HOUR)
        THEN HourlyResult("raise KeyError line 148", hf, ridership_col, <<>>, NaN)
        ELSE IF ridership_col = HOUR
        THEN HourlyResult("raise ValueError line 150", hf, ridership_col, <<>>, NaN)
        ELSE
          LET hourly_avg == GroupMean(hf, HOUR, ridership_col) IN
          IF hourly_avg = <<>>
          THEN HourlyResult("raise ValueError line 176", hf, ridership_col,
                            hourly_avg, NaN)
          ELSE HourlyResult("ok", hf, ridership_col, hourly_avg,
                            hourly_avg[IdxMaxFrac(ValuesOf(hourly_avg))].key)

Raised(status) ==
    status \in {"raise ValueError line 137", "raise IndexError line 144",
                "raise KeyError line 148", "raise ValueError line 150",
                "raise ValueError line 176", "raise KeyError line 188"}

(* ----------------------------- heatmap section ------------------------- *)
\* pivot_table(values="ridership", index="hour", columns="day_type",
\* aggfunc="mean"): one cell per (hour, day_type) pair that has rows
PivotMean(hf) ==
    LET pairs == {<<Cell(hf, hf.rows[k], HOUR), Cell(hf, hf.rows[k], DAY_TYPE)>> :
                     k \in DOMAIN hf.rows}
    IN  {[hour     |-> p[1],
          day_type |-> p[2],
          value    |->
             LET rs == SelectSeq(hf.rows, LAMBDA r :
                           Cell(hf, r, HOUR) = p[1] /\ Cell(hf, r, DAY_TYPE) = p[2])
             IN  Frac(SumSeq([k \in DOMAIN rs |-> Cell(hf, rs[k], RIDERSHIP)]),
                      Len(rs))] :
         p \in {q \in pairs : q[1] # NaN}}

\* lines 186-200, run on the hourly_filtered the hourly section left
HeatmapSection(hourly) ==
    LET hf == hourly.hourly_filtered IN
    IF Raised(hourly.status)
    THEN [status |-> "not_run", pivot_df |-> {}]
    ELSE IF ~HasColumn(hf, DAY_TYPE)
    THEN [status |-> "no_day_type", pivot_df |-> {}]
    ELSE IF ~HasColumn(hf, RIDERSHIP) \/ ~HasColumn(hf, HOUR)
    THEN [status |-> "raise KeyError line 188", pivot_df |-> {}]
    ELSE IF IsEmpty(hf)
    THEN [status |-> "pivot_of_empty_table", pivot_df |-> {}]
    ELSE [status |-> "ok", pivot_df |-> PivotMean(hf)]

(* ------------------------- recommendation section ---------------------- *)
\* line 213: avg_ridership[avg_ridership["ridership"] <= threshold]["hour"]
TouristHours(avg_ridership, threshold) ==
    LET rec == SelectSeq(avg_ridership, LAMBDA a : FracLeq(a.value, threshold))
    IN  [i \in DOMAIN rec |-> rec[i].key]

\* the two bands with their last hour left out
WorkerHours_HalfOpen(avg_ridership) ==
    LET rec == SelectSeq(avg_ridership, LAMBDA a :
                   Between(a.key, 7, 8) \/ Between(a.key, 17, 18))
    IN  [i \in DOMAIN rec |-> rec[i].key]

\* lines 217-220: hour.between(7, 9) | hour.between(17, 19)
WorkerHours(avg_ridership) ==
    LET rec == SelectSeq(avg_ridership, LAMBDA a :
                   Between(a.key, 7, 9) \/ Between(a.key, 17, 19))
    IN  [i \in DOMAIN rec |-> rec[i].key]

RecommendationResult(status, avg_ridership, threshold, recommended, hline) ==
    [status        |-> status,
     avg_ridership |-> avg_ridership,
     threshold     |-> threshold,
     recommended   |-> recommended,
     hline         |-> hline]

\* lines 207-232
RecommendationSection(hourly, heatmap, sel_role) ==
    LET hf == hourly.hourly_filtered IN
    IF Raised(hourly.status) \/ Raised(heatmap.status)
    THEN RecommendationResult("not_run", <<>>, Frac(0, 1), <<>>, Frac(0, 1))
    ELSE IF IsEmpty(hf)
    THEN RecommendationResult("nothing_shown", <<>>, Frac(0, 1), <<>>, Frac(0, 1))
    ELSE
      LET avg_ridership == GroupMean(hf, HOUR, RIDERSHIP) IN
      IF sel_role = "Tourist"
      THEN LET threshold == Quantile(ValuesOf(avg_ridership), 3)
           IN  RecommendationResult("tourist", avg_ridership, threshold,
                   TouristHours(avg_ridership, threshold), threshold)
      ELSE RecommendationResult("worker", avg_ridership, Frac(0, 1),
               WorkerHours(avg_ridership),
               Quantile(ValuesOf(avg_ridership), 7))

(* ------------------------------ one script run ------------------------- *)
\* line 95 writing through to the cached table, as it would on a view of it
DailyAfterRun_View(df, monthly) ==
    IF monthly.status = "ok"
    THEN SetColumn(df, MONTH, "datetime",
                   [k \in DOMAIN df.rows |-> MonthStart(Cell(df, df.rows[k], DATE))])
    ELSE df

\* The cached tables after the run.  Lines 84-91 and 127-130 select rows with
\* a boolean mask, which allocates a new table: the column assignments of
\* lines 95, 135 and 137 write into that copy and leave the cached table alone.
DailyAfterRun(df, monthly) == df

HourlyAfterRun(df, hourly) == df

\* lines 59-232: the script from the filters to the last chart
RunPass(ddf, hdf, sel_role, sel_day, sel_line, range) ==
    LET monthly == MonthlySection(ddf, sel_line, range)
        hourly  == HourlySection(hdf, sel_day, sel_line)
        heatmap == HeatmapSection(hourly)
        rec     == RecommendationSection(hourly, heatmap, sel_role)
    IN  [monthly        |-> monthly,
         hourly         |-> hourly,
         heatmap        |-> heatmap,
         recommendation |-> rec]

(* ------------------------------ load_data ------------------------------ *)
\* pd.to_datetime(..., errors='coerce') on one cell
ParseDateTime(x) == IF x = BadText THEN NaT ELSE x

\* line 29: df.columns = df.columns.str.strip().str.lower()
NormalizeColumns(raw) ==
    [columns |-> [i \in DOMAIN raw.columns |->
                     Col(NormalizeName(raw.columns[i].name), raw.columns[i].dtype)],
     rows    |-> raw.rows]

\* lines 28-29, 32-33
LoadDaily(raw) ==
    LET df == NormalizeColumns(raw) IN
    IF HasColumn(df, DATE)
    THEN SetColumn(df, DATE, "datetime",
                   [k \in DOMAIN df.rows |-> ParseDateTime(Cell(df, df.rows[k], DATE))])
    ELSE df

\* lines 28-31
LoadHourly(raw) ==
    LET df == NormalizeColumns(raw) IN
    IF HasColumn(df, TIME)
    THEN SetColumn(df, TIME, "datetime",
                   [k \in DOMAIN df.rows |-> ParseDateTime(Cell(df, df.rows[k], TIME))])
    ELSE df

(* --------------------------- the input files --------------------------- *)
Days == 0 .. MaxDay
RawDates == Days \cup {BadText}
RidershipValues == {0, 1}
\* 07:30, 10:00, 19:00 as minutes of the day
RawTimes == {450, 600, 1140, BadText}
DayTypeLabels == {"Weekday", "weekend"}
LineTagLabels == {"KL", "pk"}
DailyLineLabels == {"kl", "pk"}

\* Every file of at most n rows over R, one per multiset of rows: the rows are
\* listed by non-increasing key (the key holds the date or time first, so a
\* file is listed last day first and row order never agrees with date order).
RowSeqs(R, n, key) ==
    {rows \in UNION {[1 .. k -> R] : k \in 1 .. n} :
        \A i \in DOMAIN rows : \A j \in DOMAIN rows :
            i < j => key[rows[i]] >= key[rows[j]]}

RawDailyPlainRows == RawDates \X RidershipValues
RawDailyLineRows == RawDates \X DailyLineLabels \X RidershipValues
RawHourlyRows == RawTimes \X DayTypeLabels \X LineTagLabels \X RidershipValues

PlainRowKey == [r \in RawDailyPlainRows |-> r[1] * 2 + r[2]]
LineRowKey == [r \in RawDailyLineRows |-> (r[1] * 8 + StrRank(r[2])) * 2 + r[3]]
HourlyRowKey ==
    [r \in RawHourlyRows |->
        ((r[1] * 8 + StrRank(r[2])) * 8 + StrRank(r[3])) * 2 + r[4]]

Table(columns, rows) == [columns |-> columns, rows |-> rows]

\* komuter_ridership_daily_v2.csv: date and ridership, with or without a line
\* column, every combination of rows up to MaxDailyRows
DailyColsPlain == <<Col(<<"Date">>, "object"), Col(<<" ", "Ridership", " ">>, "number")>>
DailyColsLine ==
    <<Col(<<"date">>, "object"), Col(<<"line">>, "object"),
      Col(<<"ridership">>, "number")>>

VariedDailyFiles ==
    {Table(DailyColsPlain, rows) :
        rows \in RowSeqs(RawDailyPlainRows, MaxDailyRows, PlainRowKey)}
    \cup
    {Table(DailyColsLine, rows) :
        rows \in RowSeqs(RawDailyLineRows, MaxDailyRows, LineRowKey)}

\* other column layouts of the daily file, two rows each
SchemaDailyFiles ==
    { Table(<<Col(<<"date">>, "object"), Col(<<"passenger", "s">>, "number"),
              Col(<<"ridership">>, "number")>>,
            <<<<0, 1, 0>>, <<MaxDay, 0, 1>>>>),
      Table(<<Col(<<"date">>, "object"), Col(<<"count">>, "number"),
              Col(<<"Ridership", "_total">>, "number")>>,
            <<<<0, 1, 0>>, <<MaxDay, 1, 1>>>>),
      Table(<<Col(<<"date">>, "object"), Col(<<"count">>, "number"),
              Col(<<"total">>, "number")>>,
            <<<<0, 0, 1>>, <<MaxDay, 1, 1>>>>),
      Table(<<Col(<<"date">>, "object"), Col(<<"notes">>, "object")>>,
            <<<<0, "x">>, <<1, "x">>>>),
      Table(<<Col(<<"notes">>, "object"), Col(<<"date">>, "object"),
              Col(<<"line">>, "object"), Col(<<"Passenger">>, "number")>>,
            <<<<"x", 0, "kl", 1>>, <<"x", MaxDay, "pk", 1>>>>) }

\* komuter_hourly_schedule_combined_iqbal_v2.csv with the documented columns,
\* every combination of rows up to MaxHourlyRows
HourlyColsTime ==
    <<Col(<<"Time">>, "object"), Col(<<"day_type">>, "object"),
      Col(<<"line_tag">>, "object"), Col(<<"ridership">>, "number")>>

VariedHourlyFiles ==
    {Table(HourlyColsTime, rows) :
        rows \in RowSeqs(RawHourlyRows, MaxHourlyRows, HourlyRowKey)}

\* other column layouts of the hourly file, two rows each
SchemaHourlyFiles ==
    { Table(<<Col(<<"hour">>, "number"), Col(<<"day_type">>, "object"),
              Col(<<"line_tag">>, "object"), Col(<<"ridership">>, "number")>>,
            <<<<7, "Weekday", "KL", 1>>, <<10, "Weekday", "pk", 0>>>>),
      Table(<<Col(<<"hour">>, "number"), Col(<<"day_type">>, "object"),
              Col(<<"line_tag">>, "object"), Col(<<"ridership">>, "number")>>,
            <<<<7, "Weekday", "KL", 1>>, <<NaN, "Weekday", "KL", 0>>>>),
      Table(<<Col(<<"time">>, "object"), Col(<<"day_type">>, "object"),
              Col(<<"line_tag">>, "object"), Col(<<"passenger", "s">>, "number"),
              Col(<<"ridership">>, "number")>>,
            <<<<450, "Weekday", "KL", 0, 1>>, <<600, "Weekday", "KL", 1, 0>>>>),
      Table(<<Col(<<"time">>, "object"), Col(<<"day_type">>, "object"),
              Col(<<"line_tag">>, "object")>>,
            <<<<450, "Weekday", "KL">>, <<600, "weekend", "pk">>>>),
      Table(<<Col(<<"day_type">>, "object"), Col(<<"line_tag">>, "object"),
              Col(<<"notes">>, "object")>>,
            <<<<"Weekday", "KL", "x">>, <<"weekend", "pk", "x">>>>),
      Table(<<Col(<<"hour">>, "number"), Col(<<"count">>, "number"),
              Col(<<"day_type">>, "object"), Col(<<"line_tag">>, "object")>>,
            <<<<7, 1, "Weekday", "KL">>, <<10, 0, "weekend", "pk">>>>),
      Table(<<Col(<<"time">>, "object"), Col(<<"day_type">>, "object"),
              Col(<<"line_tag">>, "object"), Col(<<"count">>, "number")>>,
            <<<<450, "Weekday", "KL", 1>>, <<600, "weekend", "pk", 0>>>>) }

\* the files the two single-table specifications hold fixed
FixedDailyFile ==
    Table(DailyColsLine, <<<<0, "kl", 1>>, <<MaxDay, "pk", 1>>>>)

FixedHourlyFile ==
    Table(HourlyColsTime, <<<<450, "Weekday", "KL", 1>>, <<1140, "weekend", "pk", 0>>>>)

(* ------------------------------- sidebar ------------------------------- *)
Roles == {"Tourist", "Worker"}

\* sorted(hourly_df[name].dropna().unique())
Options(df, name) == {Cell(df, df.rows[k], name) : k \in DOMAIN df.rows}

\* a selectbox starts on its first option
FirstOption(S) == CHOOSE s \in S : \A t \in S : StrRank(s) <= StrRank(t)

ValidDates(df) == {Cell(df, df.rows[k], DATE) : k \in DOMAIN df.rows} \ {NaT}

\* line 55: value=[daily_df["date"].min(), daily_df["date"].max()]
DefaultDateRange(df) ==
    LET ds == ValidDates(df)
    IN  <<CHOOSE d \in ds : \A e \in ds : d <= e,
          CHOOSE d \in ds : \A e \in ds : e <= d>>

(* ----------------------------- state machine --------------------------- *)
\* the first run of the script: load_data, the widgets' defaults, one pass
InitFrom(dailyFiles, hourlyFiles) ==
    \E rd \in dailyFiles, rh \in hourlyFiles :
        /\ ValidDates(LoadDaily(rd)) # {}
        /\ daily_df = LoadDaily(rd)
        /\ hourly_df = LoadHourly(rh)
        /\ role = "Tourist"
        /\ day_type = FirstOption(Options(hourly_df, DAY_TYPE))
        /\ line = FirstOption(Options(hourly_df, LINE_TAG))
        /\ date_range = DefaultDateRange(daily_df)
        /\ out = RunPass(daily_df, hourly_df, role, day_type, line, date_range)

\* a widget change reruns the whole script with the new selections
Rerun(r, d, l, range) ==
    /\ role' = r
    /\ day_type' = d
    /\ line' = l
    /\ date_range' = range
    /\ out' = RunPass(daily_df, hourly_df, r, d, l, range)
    /\ daily_df' = DailyAfterRun(daily_df, out'.monthly)
    /\ hourly_df' = HourlyAfterRun(hourly_df, out'.hourly)

\* line 43
ChangeRole ==
    \E r \in Roles \ {role} : Rerun(r, day_type, line, date_range)

\* lines 45-47
ChangeDayType ==
    \E d \in Options(hourly_df, DAY_TYPE) \ {day_type} :
        Rerun(role, d, line, date_range)

\* lines 49-51
ChangeLine ==
    \E l \in Options(hourly_df, LINE_TAG) \ {line} :
        Rerun(role, day_type, l, date_range)

\* lines 53-56: the user moves one end of the range
ChangeDateRange ==
    \E end \in {1, 2}, d \in Days :
        /\ d # date_range[end]
        /\ Rerun(role, day_type, line, [date_range EXCEPT ![end] = d])

Init == InitFrom(SchemaDailyFiles \cup {FixedDailyFile},
                 SchemaHourlyFiles \cup {FixedHourlyFile})

Next == ChangeRole \/ ChangeDayType \/ ChangeLine \/ ChangeDateRange

Spec == Init /\ [][Next]_vars

\* the daily table in every combination of rows, the hourly table held fixed
InitDaily == InitFrom(VariedDailyFiles \cup SchemaDailyFiles, {FixedHourlyFile})

NextDaily == ChangeLine \/ ChangeDateRange

SpecDaily == InitDaily /\ [][NextDaily]_vars

\* the hourly table in every combination of rows, the daily table held fixed
InitHourly == InitFrom({FixedDailyFile}, VariedHourlyFiles \cup SchemaHourlyFiles)

NextHourly == ChangeRole \/ ChangeDayType \/ ChangeLine

SpecHourly == InitHourly /\ [][NextHourly]_vars

(* =============================== claims ================================ *)
start == date_range[1]
end == date_range[2]

MentionsPiece(name, piece) == \E i \in DOMAIN name : StrLower(name[i]) = piece

IsNumericAt(df, i) == df.columns[i].dtype = "number"

\* the state holds a detection result for the daily / the hourly table
DailyDetected == out.monthly.status \in {"ok", "no_monthly_data"}
HourlyDetected == out.hourly.ridership_col # NoName

\* position i holds the first numeric column of df that satisfies P, or, when
\* no numeric column satisfies P, the first numeric column
FirstNumericWith(df, i, P(_)) ==
    /\ IsNumericAt(df, i)
    /\ \/ /\ P(df.columns[i].name)
          /\ \A j \in 1 .. (i - 1) : IsNumericAt(df, j) => ~P(df.columns[j].name)
       \/ /\ \A j \in DOMAIN df.columns : IsNumericAt(df, j) => ~P(df.columns[j].name)
          /\ \A j \in 1 .. (i - 1) : ~IsNumericAt(df, j)

ChosenAsAmended(df, chosen) ==
    \E i \in DOMAIN df.columns :
        /\ df.columns[i].name = chosen
        /\ FirstNumericWith(df, i, LAMBDA c :
               MentionsPiece(c, "ridership") \/ MentionsPiece(c, "passenger"))

ChosenAsClaimed(df, chosen) ==
    \E i \in DOMAIN df.columns :
        /\ df.columns[i].name = chosen
        /\ IsNumericAt(df, i)
        /\ IF \E j \in DOMAIN df.columns :
                  IsNumericAt(df, j) /\ MentionsPiece(df.columns[j].name, "ridership")
           THEN FirstNumericWith(df, i, LAMBDA c : MentionsPiece(c, "ridership"))
           ELSE FirstNumericWith(df, i, LAMBDA c : MentionsPiece(c, "passenger"))

\* C1 as claimed: on both tables the detected column is the first numeric
\* column naming "ridership", else the first numeric column naming
\* "passenger", else the first numeric column.
C1_RidershipBeforePassenger ==
    /\ DailyDetected => ChosenAsClaimed(daily_df, out.monthly.ridership_col)
    /\ HourlyDetected =>
           ChosenAsClaimed(out.hourly.hourly_filtered, out.hourly.ridership_col)

\* C1 as amended: on both tables the detected column is the first numeric
\* column (declared order) whose lower-cased name contains "ridership" or
\* "passenger", whichever of the two comes first; with no such column it is
\* the first numeric column.  A "passenger" column that precedes a
\* "ridership" column is the one chosen.
C1_FirstMatchingNumeric ==
    /\ DailyDetected => ChosenAsAmended(daily_df, out.monthly.ridership_col)
    /\ HourlyDetected =>
           ChosenAsAmended(out.hourly.hourly_filtered, out.hourly.ridership_col)

\* both tables hold a numeric "passengers" column ahead of "ridership", and
\* detection took "passengers" on both
C1_Witness ==
    /\ DailyDetected /\ HourlyDetected
    /\ HasColumn(daily_df, RIDERSHIP)
    /\ out.monthly.ridership_col = <<"passenger", "s">>
    /\ HasColumn(hourly_df, RIDERSHIP)
    /\ out.hourly.ridership_col = <<"passenger", "s">>

(* ------------------------------ daily table ---------------------------- *)
DailyRows == DOMAIN daily_df.rows
DateAt(k) == Cell(daily_df, daily_df.rows[k], DATE)
InRange(k) == DateAt(k) # NaT /\ start <= DateAt(k) /\ DateAt(k) <= end
HasNumericDaily == \E i \in DOMAIN daily_df.columns : IsNumericAt(daily_df, i)

filtered == out.monthly.daily_filtered
summary == out.monthly.monthly_summary

\* C6: every row of the date-filtered daily result has a parsed date d with
\* start <= d <= end, so a row with an unparseable date is never in it; when
\* start > end the result is empty and the monthly section ends in its
\* no-monthly-data warning (in the no-numeric-column warning for a table
\* without a numeric column), never in an exception.
C6_DateRangeFilter ==
    /\ \A k \in DOMAIN filtered.rows :
          LET d == Cell(filtered, filtered.rows[k], DATE)
          IN  d # NaT /\ start <= d /\ d <= end
    /\ start > end =>
          /\ filtered.rows = <<>>
          /\ out.monthly.status =
                IF HasNumericDaily THEN "no_monthly_data" ELSE "no_numeric_column"

\* start < end, the filter kept a row dated on the end bound and dropped a row
\* whose date did not parse
C6_Witness ==
    /\ start < end
    /\ \E k \in DailyRows : DateAt(k) = NaT
    /\ \E k \in DOMAIN filtered.rows : Cell(filtered, filtered.rows[k], DATE) = end

\* C7: when the monthly summary is not empty the reported peak is a row of
\* it with the largest total, and no month with that total is earlier.
C7_PeakMonth ==
    summary # <<>> =>
        /\ \E i \in DOMAIN summary : summary[i] = out.monthly.peak
        /\ \A i \in DOMAIN summary :
              /\ summary[i].value <= out.monthly.peak.value
              /\ summary[i].value = out.monthly.peak.value =>
                     out.monthly.peak.key <= summary[i].key

\* two months share the largest total
C7_Witness ==
    /\ out.monthly.status = "ok"
    /\ \E i \in DOMAIN summary : \E j \in DOMAIN summary :
          /\ i # j
          /\ summary[i].value = out.monthly.peak.value
          /\ summary[j].value = out.monthly.peak.value

RECURSIVE SumDaily(_, _)
SumDaily(K, col) ==
    IF K = {} THEN 0
    ELSE LET k == CHOOSE x \in K : TRUE
         IN  Cell(daily_df, daily_df.rows[k], col) + SumDaily(K \ {k}, col)

FirstOfMonth(d) == d - (d % DaysPerMonth)

LineSelected(k) ==
    HasColumn(daily_df, LINE) =>
        StrLower(Cell(daily_df, daily_df.rows[k], LINE)) = StrLower(line)

\* the summary is exactly the months of the daily rows in K, ascending, each
\* with the sum of the detected column over the rows of K in that month
SummaryOver(K) ==
    /\ {summary[i].key : i \in DOMAIN summary} = {FirstOfMonth(DateAt(k)) : k \in K}
    /\ \A i \in DOMAIN summary : \A j \in DOMAIN summary :
          i < j => summary[i].key < summary[j].key
    /\ \A i \in DOMAIN summary :
          summary[i].value =
              SumDaily({k \in K : FirstOfMonth(DateAt(k)) = summary[i].key},
                       out.monthly.ridership_col)

\* C9 as claimed (daily table with a numeric column): the monthly summary has
\* one row per calendar month that holds a daily row dated in [start, end],
\* in ascending order, and its total is the sum of the detected column over
\* all the daily rows of that month dated in [start, end].
C9_AllRowsInRange ==
    HasNumericDaily => SummaryOver({k \in DailyRows : InRange(k)})

\* C9 as amended: the same over the daily rows dated in [start, end] whose
\* line, when the daily table has a line column, equals the selected line
\* without regard to case.
C9_RowsInRangeOnLine ==
    HasNumericDaily => SummaryOver({k \in DailyRows : InRange(k) /\ LineSelected(k)})

\* a summary is produced while a row of another line, dated in range, is left
\* out of it
C9_Witness ==
    /\ out.monthly.status = "ok"
    /\ summary # <<>>
    /\ \E k \in DailyRows : InRange(k) /\ ~LineSelected(k)

(* ------------------------------ hourly table --------------------------- *)
HourlyRows == DOMAIN hourly_df.rows

\* row k of the hourly table carries the selected day type and line
Matches(k) ==
    /\ StrLower(Cell(hourly_df, hourly_df.rows[k], DAY_TYPE)) = StrLower(day_type)
    /\ StrLower(Cell(hourly_df, hourly_df.rows[k], LINE_TAG)) = StrLower(line)

NoRowMatches == \A k \in HourlyRows : ~Matches(k)

\* the hour of row k as the file gives it: from 'time' when the table has that
\* column, else from 'hour'; NaN when missing or unparseable
HourAt(k) ==
    IF HasColumn(hourly_df, TIME)
    THEN LET t == Cell(hourly_df, hourly_df.rows[k], TIME)
         IN  IF t = NaT THEN NaN ELSE (t - (t % 60)) \div 60
    ELSE Cell(hourly_df, hourly_df.rows[k], HOUR)

CommuteHours == {7, 8, 9, 17, 18, 19}

rec == out.recommendation

SeqRange(q) == {q[i] : i \in DOMAIN q}

\* C5: in Worker mode with a non-empty category-filtered set, the recommended
\* hours are the hours of the per-hour averages that lie in
\* {7, 8, 9, 17, 18, 19}, listed once each in ascending order; when the
\* recommendation is produced the per-hour averages hold the non-null hours
\* of the matching rows, so the list is fixed by the set of hours alone, and
\* a null hour is never in it.
C5_WorkerHours ==
    (role = "Worker" /\ ~NoRowMatches) =>
        /\ SeqRange(rec.recommended) =
              {rec.avg_ridership[i].key : i \in DOMAIN rec.avg_ridership}
              \cap CommuteHours
        /\ \A i \in DOMAIN rec.recommended : \A j \in DOMAIN rec.recommended :
              i < j => rec.recommended[i] < rec.recommended[j]
        /\ rec.status = "worker" =>
              SeqRange(rec.recommended) =
                  {HourAt(k) : k \in {x \in HourlyRows : Matches(x)}}
                  \cap CommuteHours

\* Worker mode recommends 19 while 10 is averaged and not recommended
C5_Witness ==
    /\ role = "Worker"
    /\ rec.status = "worker"
    /\ rec.recommended = <<19>>
    /\ \E i \in DOMAIN rec.avg_ridership : rec.avg_ridership[i].key = 10

HasHourSource == HasColumn(hourly_df, TIME) \/ HasColumn(hourly_df, HOUR)

\* C2 (a table with a ridership column and a time or hour column): when no
\* hourly row matches the selected day type and line, the hourly-average
\* section, the heatmap section and the recommendation section each end in
\* a no-data outcome: nothing raises and no pivot is taken of the empty table.
C2_EmptySelectionDegrades ==
    (HasColumn(hourly_df, RIDERSHIP) /\ HasHourSource /\ NoRowMatches) =>
        /\ out.hourly.status = "no_hourly_data"
        /\ out.heatmap.status \notin {"raise KeyError line 188", "pivot_of_empty_table"}
        /\ rec.status = "nothing_shown"

HasNumericHourly == \E i \in DOMAIN hourly_df.columns : IsNumericAt(hourly_df, i)

\* C3: a table without a numeric column ends detection in a configuration
\* warning, on the daily table and on the non-empty category-filtered hourly
\* table: no exception, and no aggregation on a ridership column after it.
C3_NoNumericColumnIsReported ==
    /\ ~HasNumericDaily =>
          out.monthly.status = "no_numeric_column" /\ summary = <<>>
    /\ (~HasNumericHourly /\ ~NoRowMatches) =>
          ~Raised(out.hourly.status) /\ out.hourly.hourly_avg = <<>>

\* C4: in Tourist mode, when the hourly aggregation produced its averages and
\* a recommendation is shown, the threshold is the 30th percentile of those
\* averages (of the detected column) and the recommended hours are exactly
\* the hours whose average is at most the threshold.
C4_TouristUsesDetectedColumn ==
    (role = "Tourist" /\ out.hourly.status = "ok" /\ rec.status = "tourist") =>
        LET avgs == out.hourly.hourly_avg
            thr  == Quantile(ValuesOf(avgs), 3)
        IN  /\ FracEq(rec.threshold, thr)
            /\ SeqRange(rec.recommended) =
                  {avgs[i].key : i \in {j \in DOMAIN avgs : FracLeq(avgs[j].value, thr)}}

RECURSIVE SumHourly(_, _)
SumHourly(K, col) ==
    IF K = {} THEN 0
    ELSE LET k == CHOOSE x \in K : TRUE
         IN  Cell(hourly_df, hourly_df.rows[k], col) + SumHourly(K \ {k}, col)

\* C10 (a table with a ridership column and a time or hour column, some row
\* matching): the pass does not fail on a null time / hour, and the hourly
\* averages hold one row per non-null hour of the matching rows, ascending,
\* with the mean of the detected column over the rows of that hour.
C10_HourlyAverages ==
    (HasColumn(hourly_df, RIDERSHIP) /\ HasHourSource /\ ~NoRowMatches) =>
        LET avgs == out.hourly.hourly_avg
            M    == {k \in HourlyRows : Matches(k)}
        IN  /\ ~Raised(out.hourly.status)
            /\ {avgs[i].key : i \in DOMAIN avgs} = {HourAt(k) : k \in M} \ {NaN}
            /\ \A i \in DOMAIN avgs : \A j \in DOMAIN avgs :
                  i < j => avgs[i].key < avgs[j].key
            /\ \A i \in DOMAIN avgs :
                  LET G == {k \in M : HourAt(k) = avgs[i].key}
                  IN  FracEq(avgs[i].value,
                             Frac(SumHourly(G, out.hourly.ridership_col),
                                  Cardinality(G)))

====
